---- MODULE Spec2Model ----
(***************************************************************************)
(* Model of sctools.dimensionality.DimensionalityReduction: the wrapper    *)
(* that holds an AnnData handle, runs PCA on it through scanpy             *)
(* (run_pca) and plots the variance diagnostics (plot_pca_variance).       *)
(*                                                                         *)
(* An AnnData handle is a record                                           *)
(*   id        the identity of the Python object ("orig", "copy", "view")   *)
(*   n_obs     the number of cells                                         *)
(*   var_names the genes of the handle, in order                           *)
(*   var       the per-gene table: column name -> one value per gene       *)
(*   obsm      per-cell result slots  (key "X_pca": cells x components)    *)
(*   varm      per-gene result slots  (key "PCs":   genes x components)    *)
(*   uns       unstructured slots     (key "pca":   the diagnostics dict)  *)
(* Mappings (dict-like slots) are functions whose DOMAIN is the key set.   *)
(* Numbers produced by the decomposition are integers that identify the    *)
(* cell/gene, the component and the run they belong to.                    *)
(***************************************************************************)
EXTENDS Integers, Sequences, FiniteSets, TLC

VARIABLES
    heap,         \* the AnnData objects still referenced, by identity
    self_adata,   \* self.adata: the identity of the object the wrapper holds
    last,         \* the most recent call: its arguments and what came back
    ran_inplace   \* history: an in-place run_pca has succeeded on the wrapper

vars == <<heap, self_adata, last, ran_inplace>>

\* ------------------------------------------------------------- bounds
NCells == 3
NGenes == 3
MaxComps == 3

Genes == 1..NGenes
NComps == 1..MaxComps
NPcs == 1..(MaxComps + 1)
SvdSolverArgs == {"arpack", "randomized", "invalid"}
RandomStates == {42}

\* ------------------------------------------------------------ helpers
Min(a, b) == IF a <= b THEN a ELSE b

EmptyMap == [k \in {} |-> 0]

\* d[k] = v on a dict-like slot
Put(d, k, v) == [x \in (DOMAIN d) \cup {k} |-> IF x = k THEN v ELSE d[x]]

\* positions of a boolean sequence that are TRUE, in increasing order
RECURSIVE TruePositions(_, _)
TruePositions(mask, n) ==
    IF n = 0 THEN <<>>
    ELSE IF mask[n] THEN Append(TruePositions(mask, n - 1), n)
         ELSE TruePositions(mask, n - 1)

\* s[idx] for a sequence of positions idx (numpy / pandas positional take)
Take(s, idx) == [i \in 1..Len(idx) |-> s[idx[i]]]

\* np.zeros((rows, cols))
Zeros(rows, cols) == [r \in 1..rows |-> [c \in 1..cols |-> 0]]

RECURSIVE SumSeq(_, _)
SumSeq(s, n) == IF n = 0 THEN 0 ELSE SumSeq(s, n - 1) + s[n]

\* np.cumsum(s)
CumSum(s) == [i \in 1..Len(s) |-> SumSeq(s, i)]

\* s[:n] for n >= 0: Python clips the slice to the length of s
SliceTo(s, n) == SubSeq(s, 1, Min(n, Len(s)))

\* s * k, elementwise
Scale(s, k) == [i \in 1..Len(s) |-> s[i] * k]

\* range(a, b)
Range(a, b) == [i \in 1..(IF b > a THEN b - a ELSE 0) |-> a + i - 1]

\* ------------------------------------------- the delegate: sc.tl.pca
\* The decomposition itself is scanpy's; what the wrapper relies on is
\* kept: which genes are decomposed, which requests are rejected, and
\* which slots of the handle it is given are written.

RECURSIVE GeneMask(_, _)
GeneMask(names, n) ==
    IF n = 0 THEN 0 ELSE GeneMask(names, n - 1) + 2 ^ (names[n] - 1)

\* one number per (genes decomposed, solver, seed): the run a value is from
RunTag(names, svd_solver, random_state) ==
    4 * GeneMask(names, Len(names))
      + (IF svd_solver = "arpack" THEN 0 ELSE 2)
      + (IF random_state = 0 THEN 0 ELSE 1)

\* score of a cell on component c / loading of a gene on component c
PcaScore(cell, c, tag) == c + (MaxComps + 1) * (cell + (NCells + 1) * tag)
PcaLoading(gene, c, tag) == c + (MaxComps + 1) * (gene + (NGenes + 1) * tag)

\* explained-variance ratio of component c when nUsed genes are decomposed,
\* in units of 1 / (nUsed * (nUsed + 1) / 2): positive and decreasing in c
PcaVarianceRatio(nUsed, c) == nUsed + 1 - c

\* sklearn's parameter validation, reached through scanpy
PcaAccepts(n_obs, nUsed, n_comps, svd_solver) ==
    /\ svd_solver \in {"arpack", "randomized"}
    /\ n_comps >= 1
    /\ n_comps <= Min(n_obs, nUsed)
    /\ (svd_solver = "arpack" => n_comps < Min(n_obs, nUsed))

\* the positions of the genes scanpy decomposes: use_highly_variable
\* defaults to "the flag column is present"
PcaUsedPositions(data) ==
    IF "highly_variable" \in DOMAIN data.var
    THEN TruePositions(data.var["highly_variable"], Len(data.var_names))
    ELSE [i \in 1..Len(data.var_names) |-> i]

\* what a successful fit stores: obsm['X_pca'], varm['PCs'] (zero rows for
\* the genes left out) and uns['pca']
PcaSlots(data, usedPos, tag, n_comps) ==
    [X_pca |-> [i \in 1..data.n_obs |->
                  [c \in 1..n_comps |-> PcaScore(i, c, tag)]],
     PCs |-> [j \in 1..Len(data.var_names) |->
                [c \in 1..n_comps |->
                   IF \E u \in 1..Len(usedPos) : usedPos[u] = j
                   THEN PcaLoading(data.var_names[j], c, tag)
                   ELSE 0]],
     pca |-> [params |-> [zero_center |-> TRUE,
                          use_highly_variable |->
                              "highly_variable" \in DOMAIN data.var],
              variance |->
                  [c \in 1..n_comps |-> 2 * PcaVarianceRatio(Len(usedPos), c)],
              variance_ratio |->
                  [c \in 1..n_comps |-> PcaVarianceRatio(Len(usedPos), c)]]]

\* the three writes of a successful fit
PcaStore(data, slots) ==
    [data EXCEPT !.obsm = Put(@, "X_pca", slots.X_pca),
                 !.varm = Put(@, "PCs", slots.PCs),
                 !.uns = Put(@, "pca", slots.pca)]

PcaOn_StoreFirst(data, usedPos, n_comps, svd_solver, random_state) ==
    [raised |-> ~PcaAccepts(data.n_obs, Len(usedPos), n_comps, svd_solver),
     adata |-> PcaStore(data,
                  PcaSlots(data, usedPos,
                           RunTag(Take(data.var_names, usedPos),
                                  svd_solver, random_state),
                           n_comps))]

\* the fit and, when it succeeds, the three writes
PcaOn(data, usedPos, n_comps, svd_solver, random_state) ==
    IF ~PcaAccepts(data.n_obs, Len(usedPos), n_comps, svd_solver)
    THEN [raised |-> TRUE, adata |-> data]
    ELSE [raised |-> FALSE,
          adata |-> PcaStore(data,
                       PcaSlots(data, usedPos,
                                RunTag(Take(data.var_names, usedPos),
                                       svd_solver, random_state),
                                n_comps))]

\* sc.tl.pca(data, n_comps=, svd_solver=, random_state=, return_info=) on an
\* AnnData: return_info is ignored, nothing is written unless the fit
\* succeeds, and the three slots are written on the object it was given (a
\* view becomes an actual object of its own on the first write).
sc_tl_pca(data, n_comps, svd_solver, random_state, return_info) ==
    PcaOn(data, PcaUsedPositions(data), n_comps, svd_solver, random_state)

\* ------------------------------------------------------- AnnData
\* adata.copy(): a distinct object with equal contents
Copy(adata) == [adata EXCEPT !.id = "copy"]

\* adata[:, mask]: a view on the genes where mask is True; per-gene tables
\* and per-gene slots are restricted, everything else is carried over
View(adata, mask) ==
    LET idx == TruePositions(mask, Len(adata.var_names))
    IN  [adata EXCEPT !.id = "view",
                      !.var_names = Take(@, idx),
                      !.var = [col \in DOMAIN @ |-> Take(@[col], idx)],
                      !.varm = [key \in DOMAIN @ |-> Take(@[key], idx)]]

\* ------------------------------------------------------- run_pca
WorkingAdata_NoCopy(held, inplace) == held

\* line 150: the object the call works on
WorkingAdata(held, inplace) == IF inplace THEN held ELSE Copy(held)

\* lines 153 and 169: is the call restricted to the flagged genes
Restricted(adata, use_highly_variable) ==
    use_highly_variable /\ "highly_variable" \in DOMAIN adata.var

\* lines 153-157: what is handed to the delegate
AdataUse(adata, use_highly_variable) ==
    IF Restricted(adata, use_highly_variable)
    THEN View(adata, adata.var["highly_variable"])
    ELSE adata

\* line 173: target[mask] = rows, for the positions idx where mask is True.
\* numpy raises unless rows has one row per True of mask and the columns
\* of target
ScatterAt(target, idx, rows) ==
    IF \/ Len(rows) # Len(idx)
       \/ \E i \in 1..Len(rows) :
             \E r \in 1..Len(target) : Len(rows[i]) # Len(target[r])
    THEN [raised |-> TRUE, value |-> target]
    ELSE [raised |-> FALSE,
          value |-> [r \in 1..Len(target) |->
                       IF \E i \in 1..Len(idx) : idx[i] = r
                       THEN rows[CHOOSE i \in 1..Len(idx) : idx[i] = r]
                       ELSE target[r]]]

ScatterRows(target, mask, rows) ==
    ScatterAt(target, TruePositions(mask, Len(target)), rows)

\* line 172 then 173: the zero matrix is stored first, then filled in place
ScatterInto(adata, sc) ==
    [raised |-> sc.raised,
     adata |-> [adata EXCEPT !.varm = Put(@, "PCs", sc.value)]]

MergePCs_NoPadding(adata, adata_use, n_comps) ==
    IF "PCs" \notin DOMAIN adata_use.varm
    THEN [raised |-> FALSE, adata |-> adata]
    ELSE [raised |-> FALSE,
          adata |-> [adata EXCEPT
                       !.varm = Put(@, "PCs", adata_use.varm["PCs"])]]

\* lines 171-173: the loadings, when the restricted run left any
MergePCs(adata, adata_use, n_comps) ==
    IF "PCs" \notin DOMAIN adata_use.varm
    THEN [raised |-> FALSE, adata |-> adata]
    ELSE ScatterInto(adata,
                     ScatterRows(Zeros(Len(adata.var_names), n_comps),
                                 adata.var["highly_variable"],
                                 adata_use.varm["PCs"]))

MergeUns_KeepExisting(adata, adata_use) ==
    IF "pca" \in DOMAIN adata_use.uns /\ "pca" \notin DOMAIN adata.uns
    THEN [adata EXCEPT !.uns = Put(@, "pca", adata_use.uns["pca"])]
    ELSE adata

\* lines 174-175: the diagnostics, when the restricted run left any
MergeUns(adata, adata_use) ==
    IF "pca" \in DOMAIN adata_use.uns
    THEN [adata EXCEPT !.uns = Put(@, "pca", adata_use.uns["pca"])]
    ELSE adata

MergeRest(pcs, adata_use) ==
    IF pcs.raised THEN pcs
    ELSE [raised |-> FALSE, adata |-> MergeUns(pcs.adata, adata_use)]

MergeBack_NoEmbedding(adata, adata_use, n_comps) ==
    MergeRest(MergePCs(adata, adata_use, n_comps), adata_use)

\* lines 170-175: copy the results of the restricted run to the full object
MergeBack(adata, adata_use, n_comps) ==
    MergeRest(MergePCs([adata EXCEPT !.obsm =
                            Put(@, "X_pca", adata_use.obsm["X_pca"])],
                       adata_use, n_comps),
              adata_use)

ReturnValue_InfoFirst(adata, return_info, inplace) ==
    IF return_info /\ "pca" \in DOMAIN adata.uns
    THEN [kind |-> "info", info |-> adata.uns["pca"]]
    ELSE IF inplace THEN [kind |-> "None"]
         ELSE [kind |-> "adata", adata |-> adata]

\* lines 178-185: the value returned by a call that did not raise
ReturnValue(adata, return_info, inplace) ==
    IF inplace
    THEN IF return_info /\ "pca" \in DOMAIN adata.uns
         THEN [kind |-> "info", info |-> adata.uns["pca"]]
         ELSE [kind |-> "None"]
    ELSE IF return_info /\ "pca" \in DOMAIN adata.uns
         THEN [kind |-> "pair", adata |-> adata, info |-> adata.uns["pca"]]
         ELSE [kind |-> "adata", adata |-> adata]

HeldAfter_Always(held_id, adata, inplace) == adata.id

\* line 179: the object the wrapper holds after the call
HeldAfter(held_id, adata, inplace) == IF inplace THEN adata.id ELSE held_id

\* lines 177-185, or the error of a failed step
Finish(step, error, return_info, inplace) ==
    IF step.raised
    THEN [raised |-> TRUE, error |-> error, adata |-> step.adata,
          ret |-> [kind |-> "raise"]]
    ELSE [raised |-> FALSE, error |-> "none", adata |-> step.adata,
          ret |-> ReturnValue(step.adata, return_info, inplace)]

\* lines 168-185: after the delegate returned d on a restricted (or not)
\* run over the working object adata
AfterPca(adata, restricted, d, n_comps, return_info, inplace) ==
    IF d.raised
    THEN [raised |-> TRUE, error |-> "delegate",
          adata |-> IF restricted THEN adata ELSE d.adata,
          ret |-> [kind |-> "raise"]]
    ELSE IF restricted
    THEN Finish(MergeBack(adata, d.adata, n_comps), "merge", return_info,
                inplace)
    ELSE Finish(d, "none", return_info, inplace)

\* lines 152-185 on the working object adata, for the arguments a
RunPcaOn_RequiresFlag(adata, a) ==
    IF a.use_highly_variable /\ "highly_variable" \notin DOMAIN adata.var
    THEN [raised |-> TRUE, error |-> "wrapper", adata |-> adata,
          ret |-> [kind |-> "raise"]]
    ELSE AfterPca(adata, Restricted(adata, a.use_highly_variable),
                  sc_tl_pca(AdataUse(adata, a.use_highly_variable),
                            a.n_comps, a.svd_solver, a.random_state,
                            a.return_info),
                  a.n_comps, a.return_info, a.inplace)

RunPcaOn(adata, a) ==
    AfterPca(adata, Restricted(adata, a.use_highly_variable),
             sc_tl_pca(AdataUse(adata, a.use_highly_variable), a.n_comps,
                       a.svd_solver, a.random_state, a.return_info),
             a.n_comps, a.return_info, a.inplace)

\* lines 147-185: the outcome of one call on the held object:
\* raised, the working object as the call left it, the return value
RunPcaOutcome(held, a) == RunPcaOn(WorkingAdata(held, a.inplace), a)

\* the effect of a call with outcome out on the wrapper and the objects
Commit(out, args) ==
    /\ self_adata' = (IF out.raised THEN self_adata
                      ELSE HeldAfter(self_adata, out.adata, args.inplace))
    \* objects still referenced: the caller's original and the held one
    /\ heap' = [i \in {"orig", self_adata'} |->
                  IF i = out.adata.id THEN out.adata ELSE heap[i]]
    /\ last' = [op |-> "run_pca", args |-> args, raised |-> out.raised,
                error |-> out.error, ret |-> out.ret]
    /\ ran_inplace' = (ran_inplace \/ (args.inplace /\ ~out.raised))

RunPcaArgs ==
    [n_comps : NComps, use_highly_variable : BOOLEAN,
     svd_solver : SvdSolverArgs, random_state : RandomStates,
     return_info : BOOLEAN, inplace : BOOLEAN]

run_pca(args) == Commit(RunPcaOutcome(heap[self_adata], args), args)

\* ------------------------------------------------ plot_pca_variance
\* line 240: the check that the diagnostics are there
HasVarianceRatio(adata) ==
    /\ "pca" \in DOMAIN adata.uns
    /\ "variance_ratio" \in DOMAIN adata.uns["pca"]

LimitNPcs_Unclipped(n_pcs, variance_ratio) == n_pcs

\* line 248: the number of components plotted
LimitNPcs(n_pcs, variance_ratio) == Min(n_pcs, Len(variance_ratio))

\* range(a, b, step), step > 0
RECURSIVE RangeStep(_, _, _)
RangeStep(a, b, step) ==
    IF a >= b THEN <<>> ELSE <<a>> \o RangeStep(a + step, b, step)

\* lines 251-267: the figure. ax.plot(x, y) raises when x and y differ in
\* length; by then the figure exists.
Charts(x, y1, y2, log) ==
    IF Len(x) # Len(y1) \/ Len(x) # Len(y2)
    THEN [raised |-> TRUE, error |-> "plot", figure_created |-> TRUE]
    ELSE [raised |-> FALSE, error |-> "none", figure_created |-> TRUE,
          ax1 |-> [x |-> x, y |-> y1,
                   yscale |-> IF log THEN "log" ELSE "linear",
                   xticks |-> RangeStep(1, Len(x) + 1, 5)],
          ax2 |-> [x |-> x, y |-> y2, yscale |-> "linear",
                   xticks |-> RangeStep(1, Len(x) + 1, 5)]]

\* lines 244-267, once the check has passed
PlotVariance(variance_ratio, n, log) ==
    Charts(Range(1, n + 1),
           Scale(SliceTo(variance_ratio, n), 100),
           Scale(SliceTo(CumSum(variance_ratio), n), 100),
           log)

PlotOutcome_FigureFirst(adata, n_pcs, log) ==
    IF ~HasVarianceRatio(adata)
    THEN [raised |-> TRUE, error |-> "invalid_state",
          figure_created |-> TRUE]
    ELSE PlotVariance(adata.uns["pca"]["variance_ratio"],
                      LimitNPcs(n_pcs, adata.uns["pca"]["variance_ratio"]),
                      log)

\* lines 240-267: the outcome of one call on the held object
PlotOutcome(adata, n_pcs, log) ==
    IF ~HasVarianceRatio(adata)
    THEN [raised |-> TRUE, error |-> "invalid_state",
          figure_created |-> FALSE]
    ELSE PlotVariance(adata.uns["pca"]["variance_ratio"],
                      LimitNPcs(n_pcs, adata.uns["pca"]["variance_ratio"]),
                      log)

plot_pca_variance(n_pcs, log) ==
    /\ last' = [op |-> "plot_pca_variance",
                args |-> [n_pcs |-> n_pcs, log |-> log],
                out |-> PlotOutcome(heap[self_adata], n_pcs, log)]
    /\ UNCHANGED <<heap, self_adata, ran_inplace>>

\* ------------------------------------------------- the specification
\* The per-gene table of the caller's dataset: with or without the flag column
VarTables ==
    {EmptyMap} \cup {[highly_variable |-> f] : f \in [Genes -> BOOLEAN]}

\* The caller's dataset carries no variance diagnostics yet: uns has no 'pca'
\* entry, or one without 'variance_ratio'
UnsWithoutDiagnostics ==
    {EmptyMap,
     [pca |-> [params |-> [zero_center |-> TRUE,
                           use_highly_variable |-> FALSE]]]}

\* the caller's dataset before any result slot is written
FreshAdata(var, uns) ==
    [id |-> "orig", n_obs |-> NCells, var_names |-> [g \in Genes |-> g],
     var |-> var, obsm |-> EmptyMap, varm |-> EmptyMap, uns |-> uns]

\* line 93: dr = DimensionalityReduction(adata)
Init ==
    /\ \E var \in VarTables, uns \in UnsWithoutDiagnostics :
          heap = [i \in {"orig"} |-> FreshAdata(var, uns)]
    /\ self_adata = "orig"
    /\ last = [op |-> "init"]
    /\ ran_inplace = FALSE

Next ==
    \/ \E args \in RunPcaArgs : run_pca(args)
    \/ \E n_pcs \in NPcs, log \in BOOLEAN : plot_pca_variance(n_pcs, log)

Spec == Init /\ [][Next]_vars

\* ====================================================== properties
Held == heap[self_adata]
Orig == heap["orig"]

IsRun == last.op = "run_pca"
RunOk == IsRun /\ ~last.raised
IsPlot == last.op = "plot_pca_variance"

\* the three result slots of a handle
Slots(adata) == <<adata.obsm, adata.varm, adata.uns>>

\* the handle a successful call left its results on
ResultAdata == IF last.args.inplace THEN Held ELSE last.ret.adata

HasFlagColumn(adata) == "highly_variable" \in DOMAIN adata.var
Flagged(adata, g) == HasFlagColumn(adata) /\ adata.var["highly_variable"][g]
NFlagged(adata) == Cardinality({g \in Genes : Flagged(adata, g)})

\* the position of flagged gene g among the flagged genes, in gene order
FlagRank(adata, g) == Cardinality({h \in 1..g : Flagged(adata, h)})

IsMatrix(m, rows, cols) ==
    /\ Len(m) = rows
    /\ \A r \in 1..rows : Len(m[r]) = cols

\* ---- C1
\* C1: plot_pca_variance on a wrapper whose held handle has no 'pca' entry in
\* uns, or a 'pca' entry without 'variance_ratio', raises the invalid-state
\* error whatever n_pcs and log are, and no figure has been created.
C1_PlotBeforePcaRaises ==
    (IsPlot /\ ("pca" \notin DOMAIN Held.uns
                  \/ "variance_ratio" \notin DOMAIN Held.uns["pca"]))
        => /\ last.out.raised
           /\ last.out.error = "invalid_state"
           /\ ~last.out.figure_created

C1_Witness ==
    /\ IsPlot
    /\ last.args.log
    /\ "pca" \in DOMAIN Held.uns
    /\ "variance_ratio" \notin DOMAIN Held.uns["pca"]
    /\ last.out.error = "invalid_state"

\* ---- C2
\* the loadings row the delegate computes for flagged gene g when it is given
\* the matrix restricted to the flagged genes
RestrictedRow(adata, args, g) ==
    sc_tl_pca(View(adata, adata.var["highly_variable"]), args.n_comps,
              args.svd_solver, args.random_state, args.return_info
             ).adata.varm["PCs"][FlagRank(adata, g)]

\* C2: after a successful run_pca with use_highly_variable=True on a handle
\* with the flag column, varm['PCs'] of the result handle has one row per gene
\* of the full gene set and n_comps columns; each unflagged gene's row is all
\* zero and each flagged gene's row is the row the delegate computed for that
\* gene on the restricted matrix.
C2_LoadingsPadded ==
    (RunOk /\ last.args.use_highly_variable /\ HasFlagColumn(Orig))
        => /\ "PCs" \in DOMAIN ResultAdata.varm
           /\ IsMatrix(ResultAdata.varm["PCs"], NGenes, last.args.n_comps)
           /\ \A g \in Genes :
                 IF Flagged(Orig, g)
                 THEN ResultAdata.varm["PCs"][g]
                          = RestrictedRow(Orig, last.args, g)
                 ELSE \A c \in 1..last.args.n_comps :
                          ResultAdata.varm["PCs"][g][c] = 0

C2_Witness ==
    /\ RunOk
    /\ last.args.use_highly_variable
    /\ last.args.inplace
    /\ last.args.n_comps = 2
    /\ HasFlagColumn(Orig)
    /\ Flagged(Orig, 1) /\ ~Flagged(Orig, 2) /\ Flagged(Orig, 3)
    /\ Held.varm["PCs"][2] = <<0, 0>>
    /\ Held.varm["PCs"][3] # <<0, 0>>

\* ---- C3
\* what Commit stores in last for a call with outcome out
LastOf(out, args) ==
    [op |-> "run_pca", args |-> args, raised |-> out.raised,
     error |-> out.error, ret |-> out.ret]

\* C3: on a handle without the flag column, a run_pca call with
\* use_highly_variable=True raises no error of its own and leaves the result
\* slots and the return value that the call with use_highly_variable=False
\* and otherwise equal parameters leaves.
C3_NoFlagColumnSameAsUnrestricted ==
    [][(last'.op = "run_pca" /\ last'.args.use_highly_variable
          /\ ~HasFlagColumn(heap[self_adata]))
         => LET a == last'.args
                o == RunPcaOutcome(heap[self_adata],
                                   [a EXCEPT !.use_highly_variable = FALSE])
            IN  /\ last'.error \in {"none", "delegate"}
                /\ last'.raised = o.raised
                /\ last'.error = o.error
                /\ last'.ret = o.ret
                /\ self_adata' = self_adata
                /\ heap'[self_adata'] =
                      (IF a.inplace THEN o.adata ELSE heap[self_adata])
       ]_vars

C3_Witness ==
    /\ RunOk
    /\ last.args.use_highly_variable
    /\ last.args.inplace
    /\ ~HasFlagColumn(Held)
    /\ "X_pca" \in DOMAIN Held.obsm
    /\ ~Held.uns["pca"]["params"].use_highly_variable
\* ---- C4
\* the slots one call with arguments a leaves on a handle of the same dataset
\* that carries no result slot yet
FreshSlots(adata, a) ==
    Slots(RunPcaOutcome(FreshAdata(adata.var, EmptyMap),
                        [a EXCEPT !.inplace = FALSE]).adata)

\* C4: a successful run_pca with inplace=True leaves the new slots on the
\* object the wrapper held, the caller's original, and the wrapper still holds
\* it; a run_pca with inplace=False leaves every slot of the original held
\* object unchanged and the wrapper holding it, and returns a distinct object
\* carrying the new slots. With and without gene restriction.
C4_InplaceOrCopy ==
    [][last'.op = "run_pca"
         => /\ self_adata = "orig"
            /\ self_adata' = "orig"
            /\ IF last'.args.inplace
               THEN ~last'.raised
                      => Slots(heap'["orig"]) = FreshSlots(heap["orig"],
                                                           last'.args)
               ELSE /\ heap'["orig"] = heap["orig"]
                    /\ ~last'.raised
                         => /\ last'.ret.adata.id # "orig"
                            /\ Slots(last'.ret.adata)
                                  = FreshSlots(heap["orig"], last'.args)
       ]_vars

C4_Witness ==
    /\ RunOk
    /\ ~last.args.inplace
    /\ last.args.use_highly_variable
    /\ HasFlagColumn(Orig)
    /\ "X_pca" \in DOMAIN Orig.obsm
    /\ Len(Orig.obsm["X_pca"][1]) = 1
    /\ Len(last.ret.adata.obsm["X_pca"][1]) = 2
    /\ last.ret.adata.id = "copy"
    /\ self_adata = "orig"

\* ---- C5
\* the number of genes the delegate decomposes on a call: the flagged genes
\* whenever the flag column is present, all genes otherwise
NDecomposed(adata) ==
    IF HasFlagColumn(adata) THEN NFlagged(adata) ELSE NGenes

EmbeddingShape(adata, k) ==
    /\ "X_pca" \in DOMAIN adata.obsm
    /\ IsMatrix(adata.obsm["X_pca"], NCells, k)

C6_AsStated ==
    (IsRun /\ last.args.inplace /\ ran_inplace)
        => Slots(Held) = FreshSlots(Held, last.args)

\* C6 (amended): an in-place run_pca that succeeds leaves on the held handle
\* exactly the result slots a single call with the same arguments leaves on a
\* fresh handle, whatever earlier calls left there, and calling it again with
\* the same arguments changes nothing; an in-place run_pca that fails leaves
\* the slots of the last successful call in place.
C6_LastSuccessfulCallDecides ==
    [][(last'.op = "run_pca" /\ last'.args.inplace)
         => IF last'.raised
            THEN Slots(heap'[self_adata']) = Slots(heap[self_adata])
            ELSE LET a == last'.args
                 IN  /\ Slots(heap'[self_adata'])
                           = FreshSlots(heap[self_adata], a)
                     /\ RunPcaOutcome(heap'[self_adata'], a).adata
                           = heap'[self_adata']
       ]_vars

C6_Witness ==
    /\ RunOk
    /\ last.args.inplace
    /\ last.args.use_highly_variable
    /\ HasFlagColumn(Held)
    /\ last.args.n_comps = 1
    /\ IsMatrix(Held.obsm["X_pca"], NCells, 1)
    /\ IsMatrix(Held.varm["PCs"], NGenes, 1)
    /\ Len(Held.uns["pca"]["variance_ratio"]) = 1

\* ---- C7
\* the three slots are absent together, or present with the same number of
\* components
SlotsAgree(adata) ==
    IF "X_pca" \in DOMAIN adata.obsm
    THEN /\ "PCs" \in DOMAIN adata.varm
         /\ "pca" \in DOMAIN adata.uns
         /\ "variance_ratio" \in DOMAIN adata.uns["pca"]
         /\ \E k \in NComps :
               /\ IsMatrix(adata.obsm["X_pca"], NCells, k)
               /\ IsMatrix(adata.varm["PCs"], NGenes, k)
               /\ Len(adata.uns["pca"]["variance_ratio"]) = k
    ELSE /\ "PCs" \notin DOMAIN adata.varm
         /\ ~("pca" \in DOMAIN adata.uns
                /\ "variance_ratio" \in DOMAIN adata.uns["pca"])

\* C7: whenever a run_pca call ends with an error, the held handle's
\* embedding, loadings and diagnostics slots are what they were before the
\* call (in-place or not, restricted or not), and after no call have only
\* some of the three slots been updated.
C7_AllOrNothing ==
    [][last'.op = "run_pca"
         => /\ last'.raised
                 => /\ self_adata' = self_adata
                    /\ Slots(heap'[self_adata']) = Slots(heap[self_adata])
            /\ SlotsAgree(heap'[self_adata'])
       ]_vars

C7_Witness ==
    /\ IsRun
    /\ last.raised
    /\ last.error = "delegate"
    /\ last.args.inplace
    /\ last.args.use_highly_variable
    /\ last.args.svd_solver = "arpack"
    /\ HasFlagColumn(Held)
    /\ "X_pca" \in DOMAIN Held.obsm
    /\ Len(Held.obsm["X_pca"][1]) < last.args.n_comps

\* ---- C8
\* C8: the return value of a successful run_pca is None for inplace=True,
\* return_info=False; the dictionary stored in uns['pca'] of the held handle
\* for inplace=True, return_info=True; the new handle alone for
\* inplace=False, return_info=False; and the pair of the new handle and its
\* uns['pca'] for inplace=False, return_info=True; on the restricted and on
\* the unrestricted path.
C8_ReturnValue ==
    RunOk
        => /\ (last.args.inplace /\ ~last.args.return_info)
                 => last.ret = [kind |-> "None"]
           /\ (last.args.inplace /\ last.args.return_info)
                 => /\ HasVarianceRatio(Held)
                    /\ last.ret = [kind |-> "info", info |-> Held.uns["pca"]]
           /\ (~last.args.inplace /\ ~last.args.return_info)
                 => /\ last.ret.kind = "adata"
                    /\ DOMAIN last.ret = {"kind", "adata"}
                    /\ last.ret.adata.id = "copy"
                    /\ EmbeddingShape(last.ret.adata, last.args.n_comps)
           /\ (~last.args.inplace /\ last.args.return_info)
                 => /\ last.ret.kind = "pair"
                    /\ last.ret.adata.id = "copy"
                    /\ EmbeddingShape(last.ret.adata, last.args.n_comps)
                    /\ HasVarianceRatio(last.ret.adata)
                    /\ last.ret.info = last.ret.adata.uns["pca"]

C8_Witness ==
    /\ RunOk
    /\ ~last.args.inplace
    /\ last.args.return_info
    /\ last.args.use_highly_variable
    /\ HasFlagColumn(Orig)
    /\ last.ret.kind = "pair"
    /\ Len(last.ret.info.variance_ratio) = last.args.n_comps

\* ---- C9
\* C9: a plot call on a handle with diagnostics raises nothing, also when
\* n_pcs exceeds the number of stored ratios, and plots exactly
\* m = min(n_pcs, number of stored ratios) points on both charts at
\* x = 1..m: on the first the i-th ratio, on the second the sum of the first
\* i ratios (both as percentages), the second series being non-decreasing.
C9_PlottedSeries ==
    (IsPlot /\ HasVarianceRatio(Held))
        => LET ratio == Held.uns["pca"]["variance_ratio"]
               m == IF last.args.n_pcs < Len(ratio)
                    THEN last.args.n_pcs ELSE Len(ratio)
           IN  /\ ~last.out.raised
               /\ last.out.ax1.x = [i \in 1..m |-> i]
               /\ last.out.ax2.x = [i \in 1..m |-> i]
               /\ last.out.ax1.y = [i \in 1..m |-> 100 * ratio[i]]
               /\ last.out.ax2.y = [i \in 1..m |-> 100 * SumSeq(ratio, i)]
               /\ \A i \in 1..m : \A j \in i..m :
                     last.out.ax2.y[i] <= last.out.ax2.y[j]

C9_Witness ==
    /\ IsPlot
    /\ ~last.out.raised
    /\ Len(Held.uns["pca"]["variance_ratio"]) = 2
    /\ last.args.n_pcs > 2
    /\ Len(last.out.ax2.y) = 2
    /\ last.out.ax2.y[1] < last.out.ax2.y[2]

\* ---- C10
\* C10: on a wrapper that started with a handle without diagnostics, a plot
\* call raises the invalid-state error if and only if no in-place run_pca
\* has succeeded on the wrapper before it (copy-mode calls and failed calls
\* do not count), and a plot call never changes the held handle.
C10_PlotNeedsInplaceRun ==
    [][last'.op = "plot_pca_variance"
         => /\ (last'.out.raised /\ last'.out.error = "invalid_state")
                  <=> ~ran_inplace
            /\ last'.out.raised <=> ~ran_inplace
            /\ self_adata' = self_adata
            /\ heap' = heap
       ]_vars

C10_Witness ==
    /\ IsPlot
    /\ ~last.out.raised
    /\ ran_inplace
    /\ self_adata = "orig"
    /\ last.out.figure_created

====
